---- MODULE Spec2Model ----
\* Model of scale-up.ts (modules/runners/lambdas/runners/src/scale-runners):
\* one scaleUp invocation as the main control flow, plus the detached
\* allRunnersBusy coroutines it starts (line 117 calls the async function
\* without awaiting it).
EXTENDS Integers, Sequences, FiniteSets, TLC

\* ------------------------------------------------------------------ bounds

\* Longest live runner list the CI platform reports.
MaxLive == 1

\* Most invocations that run one after the other.
MaxInvocations == 2

\* ------------------------------------------------------- static configuration

\* Enumeration order of `for (const runnerType in runnerTypes)`: insertion order.
RunnerTypeNames ==
  << "linux.2xlarge", "linux.8xlarge.nvidia.gpu", "win.2xlarge", "win.8xlarge.nvidia.gpu" >>

Categories == { RunnerTypeNames[i] : i \in DOMAIN RunnerTypeNames }

runnerTypes ==
  ( "linux.2xlarge" :>
      [instance_type |-> "c5.2xlarge", os |-> "linux", max_available |-> 200,
       min_available |-> 10, disk_size |-> 100, runnerTypeName |-> "linux.2xlarge"] )
  @@
  ( "linux.8xlarge.nvidia.gpu" :>
      [instance_type |-> "g3.8xlarge", os |-> "linux", max_available |-> 50,
       min_available |-> 1, disk_size |-> 100, runnerTypeName |-> "linux.8xlarge.nvidia.gpu"] )
  @@
  ( "win.2xlarge" :>
      [instance_type |-> "c5.2xlarge", os |-> "windows", max_available |-> 50,
       min_available |-> 10, disk_size |-> 100, runnerTypeName |-> "win.2xlarge"] )
  @@
  ( "win.8xlarge.nvidia.gpu" :>
      [instance_type |-> "g3.8xlarge", os |-> "windows", max_available |-> 30,
       min_available |-> 10, disk_size |-> 100, runnerTypeName |-> "win.8xlarge.nvidia.gpu"] )

\* ------------------------------------------------------------------ inputs

EventSources == { "aws:sqs", "aws:sns" }

CheckRunStatuses == { "queued", "in_progress", "completed" }

\* payload.installationId: 0 means "unresolved"; 7 stands for any known id.
PayloadInstallationIds == { 0, 7 }

\* The id the installation lookup answers with.
LookedUpInstallationId == 9

\* Runners the CI platform may report: labels as the list of label names.
LiveRunnerKinds ==
  { [labels |-> << "self-hosted", "linux.2xlarge" >>, status |-> "online", busy |-> TRUE],
    [labels |-> << "self-hosted", "linux.2xlarge" >>, status |-> "online", busy |-> FALSE],
    [labels |-> << "self-hosted", "linux.2xlarge" >>, status |-> "offline", busy |-> FALSE],
    [labels |-> << "win.2xlarge" >>, status |-> "online", busy |-> FALSE] }

LiveRunnerLists == UNION { [1..n -> LiveRunnerKinds] : n \in 0..MaxLive }

\* Tracked runner counts per category: at the ceiling or one below it.
FleetCounts ==
  { [c \in Categories |->
       IF c \in atCeiling THEN runnerTypes[c].max_available
                          ELSE runnerTypes[c].max_available - 1] :
    atCeiling \in SUBSET Categories }

\* ------------------------------------------------------------------ state

VARIABLES
  eventSource,           \* first argument of scaleUp
  enableOrgLevel,        \* ENABLE_ORGANIZATION_RUNNERS
  payloadInstallationId, \* payload.installationId
  checkStatus,           \* status the platform holds for the check run
  liveRunners,           \* runner list the platform reports for the scope
  fleet,                 \* tracked runner count per category (the inventory)
  pc,                    \* position of scaleUp: the call it awaits, or its end
  installationId,        \* local `installationId`
  currentRunners,        \* local `currentRunners`, as count per category
  idx,                   \* position of the for-loop in RunnerTypeNames
  token,                 \* local `token` of the current iteration
  busyCheck,             \* per category: state of the allRunnersBusy promise
  liveListCalls,         \* per category: listGithubRunners calls issued
  calls,                 \* calls issued by scaleUp's own control flow, in order
  tokensReturned,        \* registration tokens the platform returned, in order
  ghNextToken,           \* next registration token the platform hands out
  failed,                \* some external call has failed
  thrownAt,              \* the awaited call whose failure scaleUp rethrew
  order,                 \* the order in which the for-in loop visits runnerTypes
  runnerExtraLabels,     \* RUNNER_EXTRA_LABELS
  runnerGroup,           \* RUNNER_GROUP_NAME
  ghesBaseUrl,           \* GHES_URL ("" when unset)
  busyArgs,              \* per category: the arguments allRunnersBusy was called with
  parked,                \* the locals of a concurrent invocation that is not stepping
  invocations            \* invocations started so far

vars ==
  << eventSource, enableOrgLevel, payloadInstallationId, checkStatus, liveRunners,
     fleet, pc, installationId, currentRunners, idx, token, busyCheck,
     liveListCalls, calls, tokensReturned, ghNextToken, failed, thrownAt,
     order, runnerExtraLabels, runnerGroup, ghesBaseUrl, busyArgs, parked, invocations >>

inputs ==
  << eventSource, enableOrgLevel, payloadInstallationId, checkStatus, liveRunners,
     order, runnerExtraLabels, runnerGroup, ghesBaseUrl >>

\* What no step of an invocation touches: the other invocations.
others == << parked, invocations >>

NoToken == 0

NoCategory == "-"

Unread == [c \in Categories |-> -1]

Call(name, runnerType, tok) == [call |-> name, runnerType |-> runnerType, token |-> tok]

\* ------------------------------------------------------------------ helpers

\* Line 113: currentRunners.filter(x => x.runnerType === runnerType).length
currentRunnerCountPlusCreated(runners, runnerType) ==
  runners[runnerType] + Cardinality({ i \in DOMAIN calls : calls[i].call = "createRunner" })

currentRunnerCountReadAgain(runners, runnerType) == fleet[runnerType]

currentRunnerCount(runners, runnerType) == runners[runnerType]

\* Line 115: currentRunnerCount < runnerTypes[runnerType].max_available
BelowMaxOffByOne(count, runnerType) == count <= runnerTypes[runnerType].max_available

BelowMaxTooStrict(count, runnerType) == count < runnerTypes[runnerType].max_available - 1

BelowMax(count, runnerType) == count < runnerTypes[runnerType].max_available

\* Line 155 without the status test.
runnersWithLabelAnyStatus(ghRunners, runnerType) ==
  SelectSeq(ghRunners, LAMBDA x : \E i \in DOMAIN x.labels : x.labels[i] = runnerType)

\* Line 155: the runners that carry the label and are not offline.
runnersWithLabel(ghRunners, runnerType) ==
  SelectSeq(ghRunners,
            LAMBDA x : (\E i \in DOMAIN x.labels : x.labels[i] = runnerType)
                       /\ x.status # "offline")

\* Line 160: runnersWithLabel.every(x => x.busy)
allRunnersBusyResult(ghRunners, runnerType) ==
  LET matching == runnersWithLabel(ghRunners, runnerType)
  IN  \A i \in DOMAIN matching : matching[i].busy

\* Line 117: the `if` tests the value of the call expression. allRunnersBusy is
\* an async function, so the value is its Promise, an object, whatever the
\* boolean it later resolves to; ToBoolean of an object is true.
ToBoolean(valueKind) == valueKind \notin { "false", "undefined", "null" }

AdmissionConditionValue == "object"

\* Line 18
IsSqsAnything(source) == TRUE

IsSqs(source) == source = "aws:sqs"

\* Line 60
IsQueuedNotCompleted(status) == status # "completed"

IsQueued(status) == status = "queued"

\* Line 31
NeedsLookupAlways(id) == TRUE

NeedsLookup(id) == id = 0

\* Line 125: const token = registrationToken.data.token
TokenForConfigCached(returned, previous) ==
  IF previous # NoToken THEN previous ELSE returned

TokenForConfig(returned, previous) == returned

\* The for-in loop moves to the next key.
NextIndexStuck(i) == i

NextIndex(i) == i + 1

\* ------------------------------------------------------------------ texts

\* A string is the list of its pieces: words, and the separators " ", "," and
\* "/" each as a piece of its own, so that a template literal is a
\* concatenation and a parser can split at the separators.
Unset == [defined |-> FALSE, text |-> << >>]

Text(pieces) == [defined |-> TRUE, text |-> pieces]

\* payload.repositoryOwner, payload.repositoryName
repositoryOwner == "acme"

repositoryName == "widgets"

NoArgs == [called |-> FALSE, org |-> "", repo |-> "", enableOrgLevel |-> FALSE]

\* Line 117: the arguments of allRunnersBusy, handed on by lines 152-153.
AllRunnersBusyArgs(runnerType) ==
  [called |-> TRUE, org |-> repositoryOwner, repo |-> repositoryName,
   enableOrgLevel |-> enableOrgLevel]

\* Lines 25-28
ghesApiUrl == IF ghesBaseUrl # "" THEN << ghesBaseUrl, "/", "api", "/", "v3" >> ELSE << >>

\* Line 57
repoName == IF enableOrgLevel THEN Unset ELSE Text(<< repositoryOwner, "/", repositoryName >>)

\* Line 58
orgNameAlways == Text(<< repositoryOwner >>)

orgName == IF enableOrgLevel THEN Text(<< repositoryOwner >>) ELSE Unset

\* Line 127
labelsArgumentCategoryOnly(runnerType, extraLabels) == << "--labels", " ", runnerType >>

labelsArgument(runnerType, extraLabels) ==
  IF extraLabels.defined
  THEN << "--labels", " ", runnerType, "," >> \o extraLabels.text
  ELSE << "--labels", " ", runnerType >>

\* Line 128
runnerGroupArgument(group) ==
  IF group.defined THEN << " ", "--runnergroup", " " >> \o group.text ELSE << >>

\* Line 129
configBaseUrl == IF ghesBaseUrl # "" THEN ghesBaseUrl ELSE "https://github.com"

\* Lines 132-135
runnerConfigGroupInBothScopes(runnerType, tok) ==
  << "--url", " ", configBaseUrl, "/", repositoryOwner >>
  \o (IF enableOrgLevel THEN << >> ELSE << "/", repositoryName >>)
  \o << " ", "--token", " ", ToString(tok), " " >>
  \o labelsArgument(runnerType, runnerExtraLabels)
  \o runnerGroupArgument(runnerGroup)

runnerConfig(runnerType, tok) ==
  IF enableOrgLevel
  THEN << "--url", " ", configBaseUrl, "/", repositoryOwner, " ", "--token", " ", ToString(tok), " " >>
       \o labelsArgument(runnerType, runnerExtraLabels)
       \o runnerGroupArgument(runnerGroup)
  ELSE << "--url", " ", configBaseUrl, "/", repositoryOwner, "/", repositoryName, " " >>
       \o << "--token", " ", ToString(tok), " " >>
       \o labelsArgument(runnerType, runnerExtraLabels)

\* Lines 130-139: the argument of createRunner.
CreateRunnerCall(runnerType, tok) ==
  [call |-> "createRunner", runnerType |-> runnerType, token |-> tok,
   runnerConfig |-> runnerConfig(runnerType, tok), orgName |-> orgName, repoName |-> repoName]

\* Names of the scope-dependent calls (lines 34-45 and 119-124).
LookupName == IF enableOrgLevel THEN "getOrgInstallation" ELSE "getRepoInstallation"

TokenName ==
  IF enableOrgLevel THEN "createRegistrationTokenForOrg" ELSE "createRegistrationTokenForRepo"

Terminal == { "done", "thrown", "crashed" }

\* ------------------------------------------------------------------ Init

Init ==
  /\ eventSource \in EventSources
  /\ enableOrgLevel \in BOOLEAN
  /\ payloadInstallationId \in PayloadInstallationIds
  /\ checkStatus \in CheckRunStatuses
  /\ liveRunners \in LiveRunnerLists
  /\ fleet \in FleetCounts
  /\ pc = "start"
  /\ installationId = payloadInstallationId
  /\ currentRunners = Unread
  /\ idx = 0
  /\ token = NoToken
  /\ busyCheck = [c \in Categories |-> "none"]
  /\ liveListCalls = [c \in Categories |-> 0]
  /\ calls = << >>
  /\ tokensReturned = << >>
  /\ ghNextToken = 1
  /\ failed = FALSE
  /\ thrownAt = "none"
  /\ order = RunnerTypeNames
  /\ runnerExtraLabels = Unset
  /\ runnerGroup = Unset
  /\ ghesBaseUrl = ""
  /\ busyArgs = [c \in Categories |-> NoArgs]
  /\ parked = << >>
  /\ invocations = 1

\* ------------------------------------------------------------------ scaleUp

\* An awaited call rejects: the exception leaves scaleUp (there is no try/catch).
Rethrow(at) ==
  /\ pc' = "thrown"
  /\ thrownAt' = at
  /\ failed' = TRUE

\* A rejection of the token call or of createRunner (lines 119-139) inside the
\* for loop: it leaves the loop and scaleUp.
LoopBodyRejectsSwallowed(at) ==
  /\ pc' = "loop"
  /\ idx' = NextIndex(idx)
  /\ thrownAt' = at
  /\ failed' = TRUE

LoopBodyRejects(at) ==
  /\ Rethrow(at)
  /\ idx' = idx

\* Lines 17-32 / 49: the transport check, then the first authentication call.
Start ==
  /\ pc = "start"
  /\ IF ~IsSqs(eventSource)
     THEN /\ Rethrow("eventSource")
          /\ UNCHANGED calls
     ELSE /\ IF NeedsLookup(installationId)
             THEN /\ pc' = "appAuth"
                  /\ calls' = Append(calls, Call("createGithubAuth:app", NoCategory, NoToken))
             ELSE /\ pc' = "instAuth"
                  /\ calls' = Append(calls, Call("createGithubAuth:installation", NoCategory, NoToken))
          /\ UNCHANGED << failed, thrownAt >>
  /\ UNCHANGED << inputs, others, fleet, installationId, currentRunners, idx, token, busyCheck, busyArgs,
                  liveListCalls, tokensReturned, ghNextToken >>

\* Line 32 returns; line 33 calls createOctoClient.
AppAuthReturn ==
  /\ pc = "appAuth"
  /\ \E ok \in BOOLEAN :
       IF ok
       THEN /\ pc' = "appClient"
            /\ calls' = Append(calls, Call("createOctoClient:app", NoCategory, NoToken))
            /\ UNCHANGED << failed, thrownAt >>
       ELSE /\ Rethrow("appAuth")
            /\ UNCHANGED calls
  /\ UNCHANGED << inputs, others, fleet, installationId, currentRunners, idx, token, busyCheck, busyArgs,
                  liveListCalls, tokensReturned, ghNextToken >>

\* Line 33 returns; lines 34-45 issue the installation lookup of the scope.
AppClientReturn ==
  /\ pc = "appClient"
  /\ \E ok \in BOOLEAN :
       IF ok
       THEN /\ pc' = "lookup"
            /\ calls' = Append(calls, Call(LookupName, NoCategory, NoToken))
            /\ UNCHANGED << failed, thrownAt >>
       ELSE /\ Rethrow("appClient")
            /\ UNCHANGED calls
  /\ UNCHANGED << inputs, others, fleet, installationId, currentRunners, idx, token, busyCheck, busyArgs,
                  liveListCalls, tokensReturned, ghNextToken >>

\* Lines 34-45 return the id; line 49 authenticates as the installation.
LookupReturn ==
  /\ pc = "lookup"
  /\ \E ok \in BOOLEAN :
       IF ok
       THEN /\ installationId' = LookedUpInstallationId
            /\ pc' = "instAuth"
            /\ calls' = Append(calls, Call("createGithubAuth:installation", NoCategory, NoToken))
            /\ UNCHANGED << failed, thrownAt >>
       ELSE /\ Rethrow("lookup")
            /\ UNCHANGED << calls, installationId >>
  /\ UNCHANGED << inputs, others, fleet, currentRunners, idx, token, busyCheck, busyArgs,
                  liveListCalls, tokensReturned, ghNextToken >>

\* Line 49 returns; line 50 calls createOctoClient.
InstAuthReturn ==
  /\ pc = "instAuth"
  /\ \E ok \in BOOLEAN :
       IF ok
       THEN /\ pc' = "instClient"
            /\ calls' = Append(calls, Call("createOctoClient:installation", NoCategory, NoToken))
            /\ UNCHANGED << failed, thrownAt >>
       ELSE /\ Rethrow("instAuth")
            /\ UNCHANGED calls
  /\ UNCHANGED << inputs, others, fleet, installationId, currentRunners, idx, token, busyCheck, busyArgs,
                  liveListCalls, tokensReturned, ghNextToken >>

\* Line 50 returns; lines 51-55 fetch the check run.
InstClientReturn ==
  /\ pc = "instClient"
  /\ \E ok \in BOOLEAN :
       IF ok
       THEN /\ pc' = "checkRun"
            /\ calls' = Append(calls, Call("checks.get", NoCategory, NoToken))
            /\ UNCHANGED << failed, thrownAt >>
       ELSE /\ Rethrow("instClient")
            /\ UNCHANGED calls
  /\ UNCHANGED << inputs, others, fleet, installationId, currentRunners, idx, token, busyCheck, busyArgs,
                  liveListCalls, tokensReturned, ghNextToken >>

\* Lines 51-64: the check run arrives; only 'queued' reads the fleet snapshot.
CheckRunReturn ==
  /\ pc = "checkRun"
  /\ \E ok \in BOOLEAN :
       IF ok
       THEN /\ IF IsQueued(checkStatus)
               THEN /\ pc' = "listRunners"
                    /\ calls' = Append(calls, Call("listRunners", NoCategory, NoToken))
               ELSE /\ pc' = "done"
                    /\ UNCHANGED calls
            /\ UNCHANGED << failed, thrownAt >>
       ELSE /\ Rethrow("checkRun")
            /\ UNCHANGED calls
  /\ UNCHANGED << inputs, others, fleet, installationId, currentRunners, idx, token, busyCheck, busyArgs,
                  liveListCalls, tokensReturned, ghNextToken >>

\* Lines 61-64 return the snapshot; the for loop (line 112) starts.
ListRunnersReturn ==
  /\ pc = "listRunners"
  /\ \E ok \in BOOLEAN :
       IF ok
       THEN /\ currentRunners' = fleet
            /\ pc' = "loop"
            /\ idx' = 1
            /\ UNCHANGED << failed, thrownAt >>
       ELSE /\ Rethrow("listRunners")
            /\ UNCHANGED << currentRunners, idx >>
  /\ UNCHANGED << inputs, others, fleet, installationId, token, busyCheck, busyArgs, calls,
                  liveListCalls, tokensReturned, ghNextToken >>

\* Lines 112-124 and 140-145: one pass of the loop head, synchronous up to the
\* await of the token call. Calling allRunnersBusy runs it up to its first
\* await (line 152), which leaves its client creation in flight.
LoopStep ==
  /\ pc = "loop"
  /\ IF idx > Len(order)
     THEN /\ pc' = "done"
          /\ UNCHANGED << idx, busyCheck, busyArgs, calls >>
     ELSE LET runnerType == order[idx]
          IN  IF BelowMax(currentRunnerCount(currentRunners, runnerType), runnerType)
              THEN /\ busyCheck' = [busyCheck EXCEPT ![runnerType] = "client"]
                   /\ busyArgs' = [busyArgs EXCEPT ![runnerType] = AllRunnersBusyArgs(runnerType)]
                   /\ IF ToBoolean(AdmissionConditionValue)
                      THEN /\ pc' = "token"
                           /\ calls' = Append(calls, Call(TokenName, runnerType, NoToken))
                           /\ UNCHANGED idx
                      ELSE /\ pc' = "loop"
                           /\ idx' = NextIndex(idx)
                           /\ UNCHANGED calls
              ELSE /\ pc' = "loop"
                   /\ idx' = NextIndex(idx)
                   /\ UNCHANGED << busyCheck, busyArgs, calls >>
  /\ UNCHANGED << inputs, others, fleet, installationId, currentRunners, token, liveListCalls,
                  tokensReturned, ghNextToken, failed, thrownAt >>

\* Lines 119-139: the token arrives, the configuration is composed and
\* createRunner is called with it.
TokenReturn ==
  /\ pc = "token"
  /\ \E ok \in BOOLEAN :
       IF ok
       THEN /\ token' = TokenForConfig(ghNextToken, token)
            /\ tokensReturned' =
                 Append(tokensReturned, [runnerType |-> order[idx], token |-> ghNextToken])
            /\ ghNextToken' = ghNextToken + 1
            /\ pc' = "create"
            /\ calls' = Append(calls, CreateRunnerCall(order[idx], token'))
            /\ UNCHANGED << idx, failed, thrownAt >>
       ELSE /\ LoopBodyRejects("token")
            /\ UNCHANGED << token, tokensReturned, ghNextToken, calls >>
  /\ UNCHANGED << inputs, others, fleet, installationId, currentRunners, busyCheck, busyArgs, liveListCalls >>

\* Lines 130-139 return: the runner is tracked from now on; next category.
CreateRunnerReturn ==
  /\ pc = "create"
  /\ \E ok \in BOOLEAN :
       IF ok
       THEN /\ fleet' = [fleet EXCEPT ![order[idx]] = @ + 1]
            /\ pc' = "loop"
            /\ idx' = NextIndex(idx)
            /\ UNCHANGED << failed, thrownAt >>
       ELSE /\ LoopBodyRejects("create")
            /\ UNCHANGED fleet
  /\ UNCHANGED << inputs, others, installationId, currentRunners, token, busyCheck, busyArgs, calls,
                  liveListCalls, tokensReturned, ghNextToken >>

\* ------------------------------------------------------------ allRunnersBusy

\* The event loop resumes a suspended coroutine only while scaleUp itself is
\* suspended in an await or has ended, and not after the process died.
EventLoopFree == pc \notin { "start", "loop", "crashed" }

\* Nobody awaits or catches the promise of line 117: its rejection is an
\* unhandled rejection, which the runtime either only reports or ends the
\* process on, depending on its version and flags.
UnhandledRejection ==
  /\ failed' = TRUE
  /\ \/ pc' = pc
     \/ pc \notin Terminal /\ pc' = "crashed"

\* Line 152 returns the client; line 153 issues the live runner list call.
BusyClientReturn(runnerType) ==
  /\ EventLoopFree
  /\ busyCheck[runnerType] = "client"
  /\ \E ok \in BOOLEAN :
       IF ok
       THEN /\ busyCheck' = [busyCheck EXCEPT ![runnerType] = "list"]
            /\ liveListCalls' = [liveListCalls EXCEPT ![runnerType] = @ + 1]
            /\ UNCHANGED << pc, failed >>
       ELSE /\ busyCheck' = [busyCheck EXCEPT ![runnerType] = "rejected"]
            /\ UnhandledRejection
            /\ UNCHANGED liveListCalls
  /\ UNCHANGED << inputs, others, fleet, installationId, currentRunners, idx, token, calls,
                  tokensReturned, ghNextToken, thrownAt, busyArgs >>

\* Lines 153-160: the live list arrives and the promise resolves to the verdict.
BusyListReturn(runnerType) ==
  /\ EventLoopFree
  /\ busyCheck[runnerType] = "list"
  /\ \E ok \in BOOLEAN :
       IF ok
       THEN /\ busyCheck' =
                 [busyCheck EXCEPT ![runnerType] =
                    IF allRunnersBusyResult(liveRunners, runnerType) THEN "true" ELSE "false"]
            /\ UNCHANGED << pc, failed >>
       ELSE /\ busyCheck' = [busyCheck EXCEPT ![runnerType] = "rejected"]
            /\ UnhandledRejection
  /\ UNCHANGED << inputs, others, fleet, installationId, currentRunners, idx, token, calls,
                  liveListCalls, tokensReturned, ghNextToken, thrownAt, busyArgs >>

\* ------------------------------------------------------------ specification

ScaleUpStep ==
  \/ Start
  \/ AppAuthReturn
  \/ AppClientReturn
  \/ LookupReturn
  \/ InstAuthReturn
  \/ InstClientReturn
  \/ CheckRunReturn
  \/ ListRunnersReturn
  \/ LoopStep
  \/ TokenReturn
  \/ CreateRunnerReturn

BusyCheckStep ==
  \E runnerType \in Categories :
    \/ BusyClientReturn(runnerType)
    \/ BusyListReturn(runnerType)

Next == ScaleUpStep \/ BusyCheckStep

Spec == Init /\ [][Next]_vars

\* Every call that is awaited eventually returns or fails.
FairSpec == Spec /\ WF_vars(ScaleUpStep) /\ WF_vars(BusyCheckStep)

\* Every call that scaleUp itself awaits eventually returns or fails; nothing
\* is assumed of the calls of the detached admission checks.
AwaitedSpec == Spec /\ WF_vars(ScaleUpStep)

\* The state of an invocation that has not taken a step.
FreshInvocation ==
  /\ pc = "start"
  /\ installationId = payloadInstallationId
  /\ currentRunners = Unread
  /\ idx = 0
  /\ token = NoToken
  /\ busyCheck = [c \in Categories |-> "none"]
  /\ busyArgs = [c \in Categories |-> NoArgs]
  /\ liveListCalls = [c \in Categories |-> 0]
  /\ calls = << >>
  /\ tokensReturned = << >>
  /\ failed = FALSE
  /\ thrownAt = "none"

\* No RUNNER_EXTRA_LABELS, RUNNER_GROUP_NAME or GHES_URL in the environment.
PlainEnvironment ==
  /\ runnerExtraLabels = Unset
  /\ runnerGroup = Unset
  /\ ghesBaseUrl = ""

\* ------------------------------------------------- any enumeration order

\* Every order in which a loop could visit the keys of runnerTypes.
Orders ==
  { o \in [DOMAIN RunnerTypeNames -> Categories] :
      \A i, j \in DOMAIN RunnerTypeNames : i # j => o[i] # o[j] }

OrderInit ==
  /\ eventSource \in EventSources
  /\ enableOrgLevel \in BOOLEAN
  /\ payloadInstallationId \in PayloadInstallationIds
  /\ checkStatus \in CheckRunStatuses
  /\ liveRunners \in LiveRunnerLists
  /\ fleet \in FleetCounts
  /\ order \in Orders
  /\ ghNextToken = 1
  /\ FreshInvocation
  /\ PlainEnvironment
  /\ parked = << >>
  /\ invocations = 1

\* The steps in which no external call fails.
NoFailureNext == Next /\ failed' = FALSE

\* One invocation in which no call fails, under any enumeration order.
OrderSpec == OrderInit /\ [][NoFailureNext]_vars

\* ------------------------------------------------- two invocations at once

\* Everything an invocation holds for itself.
Locals ==
  [pc |-> pc, installationId |-> installationId, currentRunners |-> currentRunners,
   idx |-> idx, token |-> token, busyCheck |-> busyCheck, busyArgs |-> busyArgs,
   liveListCalls |-> liveListCalls, calls |-> calls, tokensReturned |-> tokensReturned,
   failed |-> failed, thrownAt |-> thrownAt]

\* Nothing orders the steps of two invocations (no lock, no lease: they share
\* only the inventory and the platform): the one that steps next changes.
Switch ==
  /\ parked # << >>
  /\ parked' = << Locals >>
  /\ pc' = parked[1].pc
  /\ installationId' = parked[1].installationId
  /\ currentRunners' = parked[1].currentRunners
  /\ idx' = parked[1].idx
  /\ token' = parked[1].token
  /\ busyCheck' = parked[1].busyCheck
  /\ busyArgs' = parked[1].busyArgs
  /\ liveListCalls' = parked[1].liveListCalls
  /\ calls' = parked[1].calls
  /\ tokensReturned' = parked[1].tokensReturned
  /\ failed' = parked[1].failed
  /\ thrownAt' = parked[1].thrownAt
  /\ UNCHANGED << inputs, fleet, ghNextToken, invocations >>

\* Fleets in which exactly one category is one below its ceiling.
OneBelowCeiling ==
  { f \in FleetCounts :
      Cardinality({ c \in Categories : f[c] < runnerTypes[c].max_available }) = 1 }

\* Two invocations for the same scope and the same queued check run.
ConcInit ==
  /\ eventSource = "aws:sqs"
  /\ enableOrgLevel \in BOOLEAN
  /\ payloadInstallationId \in PayloadInstallationIds
  /\ checkStatus = "queued"
  /\ liveRunners \in LiveRunnerLists
  /\ fleet \in OneBelowCeiling
  /\ order = RunnerTypeNames
  /\ ghNextToken = 1
  /\ FreshInvocation
  /\ PlainEnvironment
  /\ parked = << Locals >>
  /\ invocations = 2

ConcNext == Next \/ Switch

ConcSpec == ConcInit /\ [][ConcNext]_vars

\* ------------------------------------------- invocations one after the other

\* The invocation has ended and the next event is delivered: a check run in
\* any status, fresh locals; the inventory, the live list and the platform's
\* token counter go on. Detached checks of the ended invocation are dropped
\* with it.
NextInvocation ==
  /\ pc \in Terminal
  /\ invocations < MaxInvocations
  /\ invocations' = invocations + 1
  /\ checkStatus' \in CheckRunStatuses
  /\ pc' = "start"
  /\ installationId' = payloadInstallationId
  /\ currentRunners' = Unread
  /\ idx' = 0
  /\ token' = NoToken
  /\ busyCheck' = [c \in Categories |-> "none"]
  /\ busyArgs' = [c \in Categories |-> NoArgs]
  /\ liveListCalls' = [c \in Categories |-> 0]
  /\ calls' = << >>
  /\ tokensReturned' = << >>
  /\ failed' = FALSE
  /\ thrownAt' = "none"
  /\ UNCHANGED << eventSource, enableOrgLevel, payloadInstallationId, liveRunners, order,
                  runnerExtraLabels, runnerGroup, ghesBaseUrl, fleet, ghNextToken, parked >>

SeqNext == Next \/ NextInvocation

\* The first of the invocations: SQS events without an installation id, under
\* the organization policy.
SeqInit ==
  /\ eventSource = "aws:sqs"
  /\ enableOrgLevel = TRUE
  /\ payloadInstallationId = 0
  /\ checkStatus \in CheckRunStatuses
  /\ liveRunners \in LiveRunnerLists
  /\ fleet \in FleetCounts
  /\ order = RunnerTypeNames
  /\ ghNextToken = 1
  /\ FreshInvocation
  /\ PlainEnvironment
  /\ parked = << >>
  /\ invocations = 1

SeqSpec == SeqInit /\ [][SeqNext]_vars

\* ------------------------------------------------- any environment

\* Values of RUNNER_EXTRA_LABELS: unset, empty, one label, two labels.
ExtraLabelSettings ==
  { Unset, Text(<< >>), Text(<< "gpu" >>), Text(<< "gpu", ",", "x64" >>) }

\* Values of RUNNER_GROUP_NAME.
RunnerGroupSettings == { Unset, Text(<< "Default" >>), Text(<< "gpu-pool" >>) }

\* Values of GHES_URL.
GhesSettings == { "", "https://ghe.example.com" }

\* A queued check run, one category below its ceiling, any environment.
ConfigInit ==
  /\ eventSource = "aws:sqs"
  /\ enableOrgLevel \in BOOLEAN
  /\ payloadInstallationId = 0
  /\ checkStatus = "queued"
  /\ liveRunners \in LiveRunnerLists
  /\ fleet \in OneBelowCeiling
  /\ order = RunnerTypeNames
  /\ runnerExtraLabels \in ExtraLabelSettings
  /\ runnerGroup \in RunnerGroupSettings
  /\ ghesBaseUrl \in GhesSettings
  /\ ghNextToken = 1
  /\ FreshInvocation
  /\ parked = << >>
  /\ invocations = 1

ConfigSpec == ConfigInit /\ [][Next]_vars

\* ------------------------------------------------- any live runners

\* Live runners with or without the linux.2xlarge label, of either status,
\* busy or not.
AnyRunnerKinds ==
  { [labels |-> l, status |-> s, busy |-> b] :
      l \in { << "self-hosted", "linux.2xlarge" >>, << "win.2xlarge" >> },
      s \in { "online", "offline" },
      b \in BOOLEAN }

AnyRunnerLists == UNION { [1..n -> AnyRunnerKinds] : n \in 0..(MaxLive + 1) }

\* A queued check run, one category below its ceiling, any live runners.
BusyInit ==
  /\ eventSource = "aws:sqs"
  /\ enableOrgLevel \in BOOLEAN
  /\ payloadInstallationId = 0
  /\ checkStatus = "queued"
  /\ liveRunners \in AnyRunnerLists
  /\ fleet \in OneBelowCeiling
  /\ order = RunnerTypeNames
  /\ ghNextToken = 1
  /\ FreshInvocation
  /\ PlainEnvironment
  /\ parked = << >>
  /\ invocations = 1

BusySpec == BusyInit /\ [][Next]_vars

TypeOK ==
  /\ pc \in { "start", "appAuth", "appClient", "lookup", "instAuth", "instClient",
               "checkRun", "listRunners", "loop", "token", "create" } \cup Terminal
  /\ idx \in 0..(Len(RunnerTypeNames) + 1)
  /\ \A c \in Categories :
       busyCheck[c] \in { "none", "client", "list", "true", "false", "rejected" }

\* ------------------------------------------------------------ observations

TokenNames == { "createRegistrationTokenForOrg", "createRegistrationTokenForRepo" }

LookupNames == { "getOrgInstallation", "getRepoInstallation" }

\* Positions in `calls` of the calls named in `names` made for `runnerType`.
CallsOf(names, runnerType) ==
  { i \in DOMAIN calls : calls[i].call \in names /\ calls[i].runnerType = runnerType }

tokenCalls(runnerType) == Cardinality(CallsOf(TokenNames, runnerType))

createCalls(runnerType) == Cardinality(CallsOf({ "createRunner" }, runnerType))

lookupCalls == Cardinality(CallsOf(LookupNames, NoCategory))

listRunnersCalls == Cardinality(CallsOf({ "listRunners" }, NoCategory))

AllTokenCalls == { i \in DOMAIN calls : calls[i].call \in TokenNames }

AllCreateCalls == { i \in DOMAIN calls : calls[i].call = "createRunner" }

SnapshotRead == currentRunners # Unread

MaxAvailable(runnerType) == runnerTypes[runnerType].max_available

\* Some live runner carries the label, is not offline and is idle.
HasIdleRunner(runnerType) ==
  \E i \in DOMAIN liveRunners :
    /\ \E k \in DOMAIN liveRunners[i].labels : liveRunners[i].labels[k] = runnerType
    /\ liveRunners[i].status # "offline"
    /\ liveRunners[i].busy = FALSE

\* No live runner carries the label and is not offline.
NoMatchingRunner(runnerType) ==
  \A i \in DOMAIN liveRunners :
    \/ \A k \in DOMAIN liveRunners[i].labels : liveRunners[i].labels[k] # runnerType
    \/ liveRunners[i].status = "offline"

\* External calls that have been issued and have neither returned nor failed.
InFlight ==
  (IF pc \in { "start", "loop" } \cup Terminal THEN 0 ELSE 1)
  + Cardinality({ c \in Categories : busyCheck[c] \in { "client", "list" } })

PositionOf(runnerType) == CHOOSE i \in DOMAIN order : order[i] = runnerType

\* ------------------------------------------------------------------ claims

\* C1: in a queued invocation, a category below its ceiling for which the live
\* list holds a matching, non-offline, idle runner gets no registration-token
\* call and no createRunner call.
C1_IdleRunnerBlocksCreation ==
  \A c \in Categories :
    ( /\ checkStatus = "queued"
      /\ SnapshotRead
      /\ currentRunners[c] < MaxAvailable(c)
      /\ HasIdleRunner(c) )
    => (tokenCalls(c) = 0 /\ createCalls(c) = 0)

\* C2: a category whose count in the snapshot is at or above max_available
\* gets no admission check (client or live list call), no token call and no
\* createRunner call.
C2_CeilingShortCircuits ==
  \A c \in Categories :
    (SnapshotRead /\ currentRunners[c] >= MaxAvailable(c))
    => ( /\ busyCheck[c] = "none"
         /\ liveListCalls[c] = 0
         /\ tokenCalls(c) = 0
         /\ createCalls(c) = 0 )

C2_Witness ==
  /\ pc = "done"
  /\ currentRunners["linux.2xlarge"] = MaxAvailable("linux.2xlarge")
  /\ busyCheck["linux.2xlarge"] = "none"
  /\ createCalls("win.2xlarge") = 1
  /\ busyCheck["win.2xlarge"] # "none"

\* C3: when the check run is fetched with a status other than 'queued', no
\* fleet snapshot, live list, token or createRunner call is ever made and the
\* invocation returns normally.
C3_NotQueuedIsNoOp ==
  checkStatus # "queued"
  => ( /\ listRunnersCalls = 0
       /\ ~SnapshotRead
       /\ \A c \in Categories :
            /\ busyCheck[c] = "none"
            /\ liveListCalls[c] = 0
            /\ tokenCalls(c) = 0
            /\ createCalls(c) = 0
       /\ ( ( /\ CallsOf({ "checks.get" }, NoCategory) # {}
              /\ pc # "checkRun"
              /\ thrownAt # "checkRun" )
            => pc = "done" ) )

C3_Witness ==
  /\ checkStatus = "in_progress"
  /\ pc = "done"
  /\ CallsOf({ "checks.get" }, NoCategory) # {}

\* C4: at most one external call is in flight at any moment; createRunner for
\* a category is issued only once that category's admission check has
\* delivered its verdict; no admission check is still running when the next
\* category is evaluated or when the invocation has returned.
C4_StrictlySequential ==
  /\ InFlight <= 1
  /\ \A c \in Categories :
       /\ createCalls(c) > 0 => busyCheck[c] \in { "true", "false" }
       /\ (pc = "done" \/ idx > PositionOf(c)) => busyCheck[c] \notin { "client", "list" }

\* C5: with installationId 0 at most one installation lookup is made, and
\* exactly one has been made and has returned the id before the installation
\* authentication, the check-run fetch and every later call; with a nonzero
\* installationId no lookup is made.
C5_LookupExactlyWhenUnresolved ==
  /\ payloadInstallationId # 0 => lookupCalls = 0
  /\ payloadInstallationId = 0 =>
       /\ lookupCalls <= 1
       /\ \A i \in DOMAIN calls :
            calls[i].call \notin
              (LookupNames \cup { "createGithubAuth:app", "createOctoClient:app" })
            => /\ Cardinality({ j \in 1..(i - 1) : calls[j].call \in LookupNames }) = 1
               /\ lookupCalls = 1
               /\ installationId = LookedUpInstallationId
       /\ (\E c \in Categories : busyCheck[c] # "none") => lookupCalls = 1
       /\ pc = "done" => lookupCalls = 1

C5_Witness ==
  /\ payloadInstallationId = 0
  /\ pc = "done"
  /\ lookupCalls = 1
  /\ \E c \in Categories : createCalls(c) = 1

\* C6: no category gets more than one createRunner call in an invocation.
C6_AtMostOneCreatePerCategory ==
  \A c \in Categories : createCalls(c) <= 1

C6_Witness ==
  /\ pc = "done"
  /\ Len(liveRunners) > 0
  /\ \A c \in Categories : createCalls(c) = 1

\* C7: in a queued invocation in which no call fails, a category below its
\* ceiling with no matching non-offline live runner (an empty live list
\* included) is admitted -- its admission check never answers "not all busy"
\* -- and eventually has exactly one createRunner call: the invocation always
\* ends, ends other than by a normal return only after a failure, and at a
\* normal return the category has exactly one createRunner call.
C7_NoMatchingRunnerProvisions ==
  /\ []( /\ pc \in { "thrown", "crashed" } => failed
         /\ \A c \in Categories :
              /\ NoMatchingRunner(c) => busyCheck[c] # "false"
              /\ createCalls(c) <= 1
              /\ ( /\ NoMatchingRunner(c)
                   /\ SnapshotRead
                   /\ currentRunners[c] < MaxAvailable(c)
                   /\ pc = "done" )
                 => createCalls(c) = 1 )
  /\ <>(pc \in Terminal)

C7_Witness ==
  /\ pc = "done"
  /\ ~failed
  /\ liveRunners = << >>
  /\ currentRunners["linux.2xlarge"] < MaxAvailable("linux.2xlarge")
  /\ busyCheck["linux.2xlarge"] = "true"
  /\ createCalls("linux.2xlarge") = 1

\* C8: every createRunner call follows directly, in scaleUp's own sequence of
\* calls, a token call for the same category and embeds the token that call
\* returned; at every createRunner call and at a normal return as many token
\* calls as createRunner calls have been made; no token is embedded in the
\* configuration of two categories.
C8_OneTokenPerCreate ==
  /\ \A i \in AllCreateCalls :
       LET k == Cardinality({ j \in AllCreateCalls : j <= i })
       IN  /\ i > 1
           /\ calls[i - 1].call \in TokenNames
           /\ calls[i - 1].runnerType = calls[i].runnerType
           /\ k = Cardinality({ j \in AllTokenCalls : j <= i })
           /\ k <= Len(tokensReturned)
           /\ tokensReturned[k].runnerType = calls[i].runnerType
           /\ tokensReturned[k].token = calls[i].token
  /\ pc \in { "create", "done" } => Cardinality(AllTokenCalls) = Cardinality(AllCreateCalls)
  /\ Len(tokensReturned) = Cardinality(AllCreateCalls)
  /\ \A i, j \in AllCreateCalls :
       calls[i].runnerType # calls[j].runnerType => calls[i].token # calls[j].token

C8_Witness ==
  /\ pc = "done"
  /\ Cardinality(AllCreateCalls) = Len(RunnerTypeNames)
  /\ Cardinality(AllTokenCalls) = Len(RunnerTypeNames)

\* C9: when the live list call of a category's admission check, or the client
\* creation before it, fails, the invocation does not return normally and the
\* category gets no token call and no createRunner call.
C9_AdmissionFailureStopsCategory ==
  \A c \in Categories :
    busyCheck[c] = "rejected"
    => ( /\ tokenCalls(c) = 0
         /\ createCalls(c) = 0
         /\ pc # "done" )

C11_UnsupportedTransportFailsFirst ==
  eventSource # "aws:sqs"
  => /\ calls = << >>
     /\ \A c \in Categories : busyCheck[c] = "none" /\ liveListCalls[c] = 0
     /\ pc \in { "start", "thrown" }
     /\ pc = "thrown" => thrownAt = "eventSource"

C11_Witness ==
  /\ eventSource = "aws:sns"
  /\ pc = "thrown"
  /\ thrownAt = "eventSource"
  /\ calls = << >>

\* C12: one scope throughout. Under the organization policy orgName is
\* defined and repoName is not, the lookup is getOrgInstallation, the token
\* call is createRegistrationTokenForOrg, the admission check is called with
\* the organization flag and createRunner receives orgName only; under the
\* repository policy it is the repository variant in each of these places.
C12_SingleScope ==
  /\ \A i \in DOMAIN calls :
       /\ calls[i].call \in LookupNames =>
            calls[i].call = (IF enableOrgLevel THEN "getOrgInstallation" ELSE "getRepoInstallation")
       /\ calls[i].call \in TokenNames =>
            calls[i].call = (IF enableOrgLevel THEN "createRegistrationTokenForOrg"
                                               ELSE "createRegistrationTokenForRepo")
       /\ calls[i].call = "createRunner" =>
            /\ calls[i].orgName.defined # calls[i].repoName.defined
            /\ calls[i].orgName.defined = enableOrgLevel
            /\ calls[i].orgName.defined => calls[i].orgName.text = << "acme" >>
            /\ calls[i].repoName.defined => calls[i].repoName.text = << "acme", "/", "widgets" >>
  /\ \A c \in Categories :
       busyArgs[c].called => busyArgs[c].enableOrgLevel = enableOrgLevel

C12_Witness ==
  /\ ~enableOrgLevel
  /\ payloadInstallationId = 0
  /\ pc = "done"
  /\ \E i \in DOMAIN calls : calls[i].call = "getRepoInstallation"
  /\ \E i \in DOMAIN calls : calls[i].call = "createRegistrationTokenForRepo"
  /\ \E i \in DOMAIN calls :
       /\ calls[i].call = "createRunner"
       /\ calls[i].repoName.defined
       /\ ~calls[i].orgName.defined
  /\ \E c \in Categories : busyArgs[c].called

\* C13: in an invocation without a failed call the categories that get a
\* createRunner call are, under every enumeration order, exactly those whose
\* own count in the one snapshot is below their own max_available: nothing
\* decided or created for another category enters, and neither does the order.
C13_OrderIndependent ==
  /\ listRunnersCalls <= 1
  /\ SnapshotRead => \A c \in Categories : createCalls(c) > 0 => currentRunners[c] < MaxAvailable(c)
  /\ (pc = "done" /\ SnapshotRead) =>
       { c \in Categories : createCalls(c) > 0 }
         = { c \in Categories : currentRunners[c] < MaxAvailable(c) }

C13_Witness ==
  /\ pc = "done"
  /\ order[1] = "win.8xlarge.nvidia.gpu"
  /\ order[2] = "linux.2xlarge"
  /\ currentRunners["win.2xlarge"] = MaxAvailable("win.2xlarge")
  /\ createCalls("win.8xlarge.nvidia.gpu") = 1
  /\ createCalls("linux.2xlarge") = 1
  /\ createCalls("linux.8xlarge.nvidia.gpu") = 1
  /\ createCalls("win.2xlarge") = 0

\* C14: two invocations are not kept apart. Whenever both have read a
\* snapshot that shows a category one below its ceiling and both have
\* returned, each has issued a createRunner call for it and its tracked count
\* stands one above max_available; the witness is the interleaving.
C14_BothInvocationsProvision ==
  \A c \in Categories :
    ( /\ parked # << >>
      /\ pc = "done"
      /\ parked[1].pc = "done"
      /\ currentRunners[c] = MaxAvailable(c) - 1
      /\ parked[1].currentRunners[c] = MaxAvailable(c) - 1 )
    => /\ createCalls(c) = 1
       /\ Cardinality({ i \in DOMAIN parked[1].calls :
                           /\ parked[1].calls[i].call = "createRunner"
                           /\ parked[1].calls[i].runnerType = c }) = 1
       /\ fleet[c] = MaxAvailable(c) + 1

C14_Witness ==
  /\ parked # << >>
  /\ pc = "done"
  /\ parked[1].pc = "done"
  /\ ~failed
  /\ ~parked[1].failed
  /\ currentRunners["linux.2xlarge"] = MaxAvailable("linux.2xlarge") - 1
  /\ parked[1].currentRunners["linux.2xlarge"] = MaxAvailable("linux.2xlarge") - 1
  /\ busyCheck["linux.2xlarge"] = "true"
  /\ parked[1].busyCheck["linux.2xlarge"] = "true"
  /\ createCalls("linux.2xlarge") = 1
  /\ fleet["linux.2xlarge"] > MaxAvailable("linux.2xlarge")

\* C18: with invocations one after the other, from a fleet within its
\* ceilings, the tracked count of every category stays at most its
\* max_available, and it changes only by one per successful createRunner call.
C18_CeilingKeptSequentially ==
  /\ \A c \in Categories : fleet[c] <= MaxAvailable(c)
  /\ SnapshotRead =>
       \A c \in Categories :
         /\ fleet[c] \in { currentRunners[c], currentRunners[c] + 1 }
         /\ fleet[c] # currentRunners[c] => createCalls(c) = 1
         /\ (pc = "done" /\ createCalls(c) = 1) => fleet[c] = currentRunners[c] + 1

C18_Witness ==
  /\ invocations = 2
  /\ pc = "done"
  /\ SnapshotRead
  /\ \E c \in Categories :
       /\ currentRunners[c] = MaxAvailable(c) - 1
       /\ createCalls(c) = 1
       /\ fleet[c] = MaxAvailable(c)
  /\ \E c \in Categories :
       /\ currentRunners[c] = MaxAvailable(c)
       /\ createCalls(c) = 0

\* ------------------------------------------------ reading a configuration

\* The parts of `text` between the occurrences of `sep`, as split() gives them.
RECURSIVE SplitAt(_, _)
SplitAt(text, sep) ==
  IF text = << >> THEN << << >> >>
  ELSE LET rest == SplitAt(Tail(text), sep)
       IN  IF Head(text) = sep
           THEN << << >> >> \o rest
           ELSE << << Head(text) >> \o rest[1] >> \o Tail(rest)

\* The argument that follows the first `name` among the space-separated
\* arguments of `config`; Unset when `name` is not among them.
OptionValue(config, name) ==
  LET args == SplitAt(config, " ")
      at == { i \in 1..(Len(args) - 1) : args[i] = << name >> }
  IN  IF at = {} THEN Unset
      ELSE Text(args[(CHOOSE i \in at : \A j \in at : i <= j) + 1])

\* The labels of `config`, in order.
ParsedLabels(config) == SplitAt(OptionValue(config, "--labels").text, ",")

ConfiguredExtraLabels ==
  IF runnerExtraLabels.defined THEN SplitAt(runnerExtraLabels.text, ",") ELSE << >>

\* C15 as stated: read back, every configuration gives the category as first
\* label, the configured extra labels as the rest, and the configured runner
\* group exactly when one is configured, in either scope.
C15_ConfigRoundTrip ==
  \A i \in AllCreateCalls :
    /\ OptionValue(calls[i].runnerConfig, "--labels").defined
    /\ Head(ParsedLabels(calls[i].runnerConfig)) = << calls[i].runnerType >>
    /\ Tail(ParsedLabels(calls[i].runnerConfig)) = ConfiguredExtraLabels
    /\ OptionValue(calls[i].runnerConfig, "--runnergroup") = runnerGroup

\* C15, amended: as above, but the runner group is read back exactly when one
\* is configured and the invocation is organization-scoped; a
\* repository-scoped configuration carries none.
C15_ConfigRoundTripOrgGroup ==
  \A i \in AllCreateCalls :
    /\ OptionValue(calls[i].runnerConfig, "--labels").defined
    /\ Head(ParsedLabels(calls[i].runnerConfig)) = << calls[i].runnerType >>
    /\ Tail(ParsedLabels(calls[i].runnerConfig)) = ConfiguredExtraLabels
    /\ OptionValue(calls[i].runnerConfig, "--runnergroup")
         = (IF enableOrgLevel THEN runnerGroup ELSE Unset)

C15_Witness ==
  /\ pc = "done"
  /\ enableOrgLevel
  /\ runnerExtraLabels = Text(<< "gpu", ",", "x64" >>)
  /\ runnerGroup = Text(<< "gpu-pool" >>)
  /\ \E i \in AllCreateCalls :
       /\ ParsedLabels(calls[i].runnerConfig)
            = << << calls[i].runnerType >>, << "gpu" >>, << "x64" >> >>
       /\ OptionValue(calls[i].runnerConfig, "--runnergroup") = Text(<< "gpu-pool" >>)

\* C17: a configuration holds --runnergroup exactly when the invocation is
\* organization-scoped and a runner group is configured.
C17_GroupOnlyForOrganization ==
  \A i \in AllCreateCalls :
    (\E k \in DOMAIN calls[i].runnerConfig : calls[i].runnerConfig[k] = "--runnergroup")
    <=> (enableOrgLevel /\ runnerGroup.defined)

C17_Witness ==
  /\ pc = "done"
  /\ ~enableOrgLevel
  /\ runnerGroup = Text(<< "Default" >>)
  /\ \E i \in AllCreateCalls :
       \A k \in DOMAIN calls[i].runnerConfig : calls[i].runnerConfig[k] # "--runnergroup"

\* ------------------------------------------------ the admission result

\* The live runners that count for `runnerType`: labelled with it, not offline.
Counts(runner, runnerType) ==
  /\ \E k \in DOMAIN runner.labels : runner.labels[k] = runnerType
  /\ runner.status # "offline"

\* C16: a resolved admission check is true exactly when every live runner
\* that carries the category's label and is not offline is busy; the other
\* runners do not enter into it.
C16_BusyExactlyWhenAllCountingBusy ==
  \A c \in Categories :
    busyCheck[c] \in { "true", "false" } =>
      (busyCheck[c] = "true"
         <=> \A i \in DOMAIN liveRunners :
               Counts(liveRunners[i], c) => liveRunners[i].busy)

\* Resolved true beside an idle offline runner with the label.
C16_Witness ==
  /\ busyCheck["linux.2xlarge"] = "true"
  /\ \E i, j \in DOMAIN liveRunners :
       /\ Counts(liveRunners[i], "linux.2xlarge") /\ liveRunners[i].busy
       /\ liveRunners[j].status = "offline" /\ ~liveRunners[j].busy
       /\ liveRunners[j].labels = liveRunners[i].labels

\* ------------------------------------------------ termination and budget

\* C19: when every awaited call returns or fails, the invocation ends -- by a
\* normal return, by a rethrown failure, or with the process ended by an
\* unhandled rejection -- and at no moment has it read the fleet snapshot more
\* than once or made, for any category, more than one live-list call, more
\* than one registration-token call or more than one createRunner call.
C19_TerminatesWithinBudget ==
  /\ <>(pc \in Terminal)
  /\ []( /\ listRunnersCalls <= 1
         /\ \A c \in Categories :
              /\ liveListCalls[c] <= 1
              /\ tokenCalls(c) <= 1
              /\ createCalls(c) <= 1 )

\* A normal return after one snapshot read and, for a category, one call of
\* each kind.
C19_Witness ==
  /\ pc = "done"
  /\ listRunnersCalls = 1
  /\ \E c \in Categories :
       /\ liveListCalls[c] = 1
       /\ tokenCalls(c) = 1
       /\ createCalls(c) = 1

====
